---- MODULE Spec2Model ----
(***************************************************************************)
(* Smart NVR: clip acquisition (FrigateService), artifact staging and      *)
(* pipeline submission (VmsService over SummarizationService) and the rule *)
(* table endpoints of the API router.                                      *)
(*                                                                         *)
(* A Python call is modelled by what it does: it returns a value, or it    *)
(* raises.  Every function result is a record [kind, code, val]:           *)
(*   kind = "return"         the function returned val                     *)
(*   kind = "HTTPException"  fastapi.HTTPException(status_code=code)       *)
(*   any other kind          an exception no handler catches; the ASGI     *)
(*                           layer answers it with status 500              *)
(* Network traffic is recorded request by request in the operation record. *)
(***************************************************************************)
EXTENDS Integers, Sequences, FiniteSets, TLC

(***************************************************************************)
(* Bounds of the model.                                                    *)
(***************************************************************************)
MaxTmp == 2        \* temporary artifacts created in one run
MaxVideos == 1     \* videos the analysis backend accepts in one run
MaxJobs == 1       \* summary pipelines the analysis backend creates
ClipChunks == 2    \* chunks in the body of a complete clip stream

(***************************************************************************)
(* Program constants.                                                      *)
(***************************************************************************)
MaxClipSeconds == 300

Cameras == {"front-door"}
\* start and end times offered to the operations: a short valid range (0,10),
\* the longest valid range (10,310), ranges over the cap (10,311), (0,310),
\* (0,311), equal ranges (0,0), (10,10) and a reversed range (10,0).
StartTimes == {0, 10}
EndTimes == {0, 10, 310, 311}

\* What the footage source / the analysis backend does with one request.
\*   "ok"   2xx            "404"  HTTP 404 (HTTPError after raise_for_status)
\*   "500"  other non-2xx  "conn" connection failure or timeout
Upstream == {"ok", "404", "500", "conn", "hang"}

Missing == "<missing>"          \* a parameter the call site does not pass
NoneVal == "<None>"             \* Python None / an absent JSON field
SummaryText == "A person walks to the front door."
PendingMessage == "Summary is being generated please wait for a while and try again."
VssBaseUrl == "http://vss"

OkR(v) == [kind |-> "return", code |-> 200, val |-> v]
HTTPException(c, d) == [kind |-> "HTTPException", code |-> c, val |-> d]
Unhandled(k, d) == [kind |-> k, code |-> 500, val |-> d]
NoRes == [kind |-> "none", code |-> 0, val |-> ""]
Raised(r) == r.kind # "return"

\* A request sent without timeout to a service that never answers: the call
\* does not return and nothing after it runs.
Blocked == [kind |-> "blocked", code |-> 0, val |-> ""]
PcAfter(r) == IF r = Blocked THEN "blocked" ELSE "done"

\* One network request: the service it goes to, the call, its argument and what
\* the service did with it.
Req(to, what, arg, up) == [to |-> to, what |-> what, arg |-> arg, up |-> up]
Out(r, q) == [res |-> r, reqs |-> q]

(***************************************************************************)
(* FrigateService                                                          *)
(***************************************************************************)
_validate_time_range(start_time, end_time) ==
    IF end_time <= start_time
    THEN HTTPException(400, "End time must be after start time")
    ELSE IF (end_time - start_time) > MaxClipSeconds
         THEN HTTPException(400, "Clip duration cannot exceed 300 seconds")
         ELSE OkR(NoneVal)

\* get_camera_clip: only a 404 HTTPError is translated; any other HTTPError is
\* re-raised as it is and a connection failure is not caught at all.
get_camera_clip(camera_name, start_time, end_time, up) ==
    LET v == _validate_time_range(start_time, end_time)
        q == <<Req("frigate", "GET clip", camera_name, up)>>
    IN  IF Raised(v) THEN Out(v, <<>>)
        ELSE CASE up = "ok"   -> Out(OkR("StreamingResponse"), q)
               [] up = "404"  -> Out(HTTPException(404, "No clip found for specified time range"), q)
               [] up = "500"  -> Out(Unhandled("HTTPError", "500 Server Error"), q)
               [] up = "conn" -> Out(Unhandled("ConnectionError", "connection failed"), q)
               [] up = "hang" -> Out(Blocked, q)

export_camera_clip(camera_name, start_time, end_time, up) ==
    LET v == _validate_time_range(start_time, end_time)
        q == <<Req("frigate", "POST export", camera_name, up)>>
    IN  IF Raised(v) THEN Out(v, <<>>)
        ELSE CASE up = "ok"   -> Out(OkR("export"), q)
               [] up = "404"  -> Out(HTTPException(404, "Frigate export error: not found"), q)
               [] up = "500"  -> Out(HTTPException(500, "Frigate export error: server error"), q)
               [] up = "conn" -> Out(HTTPException(502, "Failed to contact Frigate: connection failed"), q)
               [] up = "hang" -> Out(HTTPException(502, "Failed to contact Frigate: read timed out"), q)

\* Mutant: the order check written with < lets an empty range through.
get_clip_from_timestamps_lt(camera_name, start_time, end_time, up) ==
    LET q == <<Req("frigate", "GET clip.mp4", camera_name, up)>>
    IN  IF end_time < start_time
        THEN Out(HTTPException(400, "End time must be after start time"), <<>>)
        ELSE CASE up = "ok"   -> Out(OkR("StreamingResponse"), q)
               [] up = "404"  -> Out(HTTPException(404, "Clip not found for specified time range"), q)
               [] up = "500"  -> Out(HTTPException(502, "Frigate error: server error"), q)
               [] up = "conn" -> Out(HTTPException(502, "Failed to connect to Frigate: connection failed"), q)
               [] up = "hang" -> Out(Blocked, q)

\* get_clip_from_timestamps checks only the order of the two times.
get_clip_from_timestamps(camera_name, start_time, end_time, up) ==
    LET q == <<Req("frigate", "GET clip.mp4", camera_name, up)>>
    IN  IF end_time <= start_time
        THEN Out(HTTPException(400, "End time must be after start time"), <<>>)
        ELSE CASE up = "ok"   -> Out(OkR("StreamingResponse"), q)
               [] up = "404"  -> Out(HTTPException(404, "Clip not found for specified time range"), q)
               [] up = "500"  -> Out(HTTPException(502, "Frigate error: server error"), q)
               [] up = "conn" -> Out(HTTPException(502, "Failed to connect to Frigate: connection failed"), q)
               [] up = "hang" -> Out(Blocked, q)

(***************************************************************************)
(* Analysis backend (external service, see summarization_api.py for the    *)
(* requests): it numbers the videos it accepts and the pipelines it        *)
(* creates; a pipeline's summary field is absent, then possibly empty,     *)
(* then the summary text.                                                  *)
(***************************************************************************)
VideoId(n) == "v" \o ToString(n)
Pid(n) == "p" \o ToString(n)
JobIndex(jobs, pid) == {i \in 1..Len(jobs) : Pid(i) = pid}

RECURSIVE Accepted(_, _)
Accepted(reqs, what) ==
    IF reqs = <<>> THEN 0
    ELSE (IF Head(reqs).what = what /\ Head(reqs).up = "ok" THEN 1 ELSE 0)
         + Accepted(Tail(reqs), what)

VideosAfter(videos, reqs) == videos + Accepted(reqs, "POST /manager/videos/")
JobsAfter(jobs, reqs) ==
    jobs \o [i \in 1..Accepted(reqs, "POST /manager/summary") |-> NoneVal]

(***************************************************************************)
(* SummarizationService: every method takes base_url as a required         *)
(* positional parameter; a call that does not pass it raises TypeError     *)
(* before the body runs.                                                   *)
(***************************************************************************)
MissingArgument(name) ==
    Unhandled("TypeError", "missing 1 required positional argument: " \o name)

video_upload(video_path, base_url, files, up, videos) ==
    LET q == <<Req("vss", "POST /manager/videos/", ToString(video_path), up)>>
    IN  IF base_url = Missing THEN Out(MissingArgument("base_url"), <<>>)
        ELSE IF video_path \notin files
        THEN Out(HTTPException(400, "Video file not found at path"), <<>>)
        ELSE IF up = "ok" THEN Out(OkR(VideoId(videos + 1)), q)
        ELSE IF up = "hang" THEN Out(HTTPException(502, "Failed to upload video: read timed out"), q)
        ELSE Out(HTTPException(502, "Failed to upload video: " \o up), q)

create_summary(videoId, base_url, up, jobs) ==
    LET q == <<Req("vss", "POST /manager/summary", videoId, up)>>
    IN  IF base_url = Missing THEN Out(MissingArgument("base_url"), <<>>)
        ELSE IF up = "ok" THEN Out(OkR(Pid(Len(jobs) + 1)), q)
        ELSE IF up = "hang" THEN Out(Blocked, q)
        ELSE Out(HTTPException(502, "Failed to create summary: " \o up), q)

\* The backend answers a pipeline it does not know with 404, whatever `up` is.
get_summary_result(pipeline_id, base_url, up, jobs) ==
    LET known == JobIndex(jobs, pipeline_id) # {}
        upx == IF up = "ok" /\ ~known THEN "404" ELSE up
        q == <<Req("vss", "GET /manager/summary", pipeline_id, upx)>>
    IN  IF base_url = Missing THEN Out(MissingArgument("base_url"), <<>>)
        ELSE IF upx = "ok"
        THEN Out(OkR(jobs[CHOOSE i \in JobIndex(jobs, pipeline_id) : TRUE]), q)
        ELSE IF upx = "hang" THEN Out(Blocked, q)
        ELSE Out(HTTPException(502, "Failed to get summary result: " \o upx), q)

(***************************************************************************)
(* VmsService                                                              *)
(***************************************************************************)
Stage(name, r) == [stage |-> name, ok |-> ~Raised(r), res |-> r]

\* Mutant: a clip request that failed is sent once more.
upload_fetch_retry(camera_name, start_time, end_time, up) ==
    LET f == get_clip_from_timestamps(camera_name, start_time, end_time, up)
    IN  IF Raised(f.res) THEN Out(f.res, f.reqs \o f.reqs) ELSE f

\* upload_video_to_summarizer, first part: the clip request.  The caller
\* creates the temporary file only when this returned.
upload_fetch(camera_name, start_time, end_time, up) ==
    get_clip_from_timestamps(camera_name, start_time, end_time, up)

\* upload_video_to_summarizer, last part: the upload of the written file.
\* video_upload is called with the path alone.
upload_stage(tmp_path, files, up, videos) ==
    video_upload(tmp_path, Missing, files, up, videos)

\* The files left in the temporary directory when upload_video_to_summarizer
\* exits: its finally block only logs the path; os.remove is commented out.
upload_cleanup(files, tmp_path) == files

\* Mutant: summarize goes on to create_summary although the upload raised.
summarize_tail_continue(u, up, jobs) ==
    LET c == create_summary(u.res.val, Missing, up, jobs)
    IN  [res |-> c.res, reqs |-> u.reqs \o c.reqs,
         stages |-> <<Stage("upload", u.res), Stage("submit", c.res)>>]

\* summarize after `video_id = await self.upload_video_to_summarizer(...)`:
\* u is the outcome of the upload stage.
summarize_tail(u, up, jobs) ==
    IF Raised(u.res) THEN [res |-> u.res, reqs |-> u.reqs, stages |-> <<Stage("upload", u.res)>>]
    ELSE LET c == create_summary(u.res.val, Missing, up, jobs)
         IN  [res |-> c.res, reqs |-> u.reqs \o c.reqs,
              stages |-> <<Stage("upload", u.res), Stage("submit", c.res)>>]

\* search_embeddings after the upload: the URL is built from self.base_url,
\* an attribute VmsService never sets.
search_embeddings_tail(u, up) ==
    IF Raised(u.res) THEN [res |-> u.res, reqs |-> u.reqs, stages |-> <<Stage("upload", u.res)>>]
    ELSE LET c == Unhandled("AttributeError", "'VmsService' object has no attribute 'base_url'")
         IN  [res |-> c, reqs |-> u.reqs,
              stages |-> <<Stage("upload", u.res), Stage("submit", c)>>]

\* Mutant: the status call re-posts the pipeline instead of reading it.
summary_repost(summary_id, up, jobs) ==
    LET g == create_summary(summary_id, VssBaseUrl, up, jobs)
    IN  IF Raised(g.res) THEN g ELSE Out(OkR(PendingMessage), g.reqs)

\* summary(summary_id): get_summary_result is called with the id alone.
summary(summary_id, up, jobs) ==
    LET g == get_summary_result(summary_id, Missing, up, jobs)
    IN  IF Raised(g.res) THEN g
        ELSE IF g.res.val \in {NoneVal, ""} THEN Out(OkR(PendingMessage), g.reqs)
        ELSE Out(OkR(g.res.val), g.reqs)

(***************************************************************************)
(* Rule table store (service.redis_store): rules keyed by id in a shared   *)
(* key-value store; add fails on an id that exists, delete fails on an id  *)
(* that does not.                                                          *)
(***************************************************************************)
RuleIds == {"r1", "r2"}
RuleLabels == {"person"}
RuleActions == {"Summarize", "add to search", "Add to Search"}
RuleCameras == {NoneVal} \cup Cameras
Rule == [id : RuleIds, label : RuleLabels, action : RuleActions, camera : RuleCameras]
NoRule == [id |-> "", label |-> "", action |-> "", camera |-> NoneVal]
DeletedRule == [NoRule EXCEPT !.label = "<deleted>"]
HasRule(rs, id) == \E r \in rs : r.id = id

redis_add_rule(rs, rule_id, rule) ==
    IF \E r \in rs : r.id = rule_id
    THEN [ok |-> FALSE, rules |-> rs]
    ELSE [ok |-> TRUE, rules |-> rs \cup {rule}]

redis_get_rules(rs) == rs

redis_get_rule(rs, rule_id) ==
    IF \E r \in rs : r.id = rule_id
    THEN CHOOSE r \in rs : r.id = rule_id
    ELSE NoRule

redis_delete_rule(rs, rule_id) ==
    IF \E r \in rs : r.id = rule_id
    THEN [ok |-> TRUE, rules |-> {r \in rs : r.id # rule_id}]
    ELSE [ok |-> FALSE, rules |-> rs]


\* The result index of the store for one rule id; a delete of the rule
\* removes its entries.
redis_get_summary_ids(sids, rule_id) == sids[rule_id]
redis_get_search_results_by_rule(srs, rule_id) == srs[rule_id]
redis_delete_index(idx, rule_id) == [idx EXCEPT ![rule_id] = <<>>]

\* What can go wrong with the store during one listing: nothing, the
\* rule-list fetch, or the index lookup of one rule.
StoreFaults == {"none", "get_rules"} \cup RuleIds
StoreError == Unhandled("ConnectionError", "store unreachable")

\* The orders in which the store can hand out the rules.
RuleOrders ==
    {o \in [1..Cardinality(RuleIds) -> RuleIds] : \A i, j \in DOMAIN o : o[i] = o[j] => i = j}

RECURSIVE RulesInOrder(_, _)
RulesInOrder(rs, order) ==
    IF order = <<>> THEN <<>>
    ELSE (IF HasRule(rs, Head(order)) THEN <<redis_get_rule(rs, Head(order))>> ELSE <<>>)
         \o RulesInOrder(rs, Tail(order))

(***************************************************************************)
(* Python built-ins used by the listings                                   *)
(***************************************************************************)
UpperCase == "ABCDEFGHIJKLMNOPQRSTUVWXYZ"
LowerCase == "abcdefghijklmnopqrstuvwxyz"

lower_char(c) ==
    IF \E i \in 1..Len(UpperCase) : SubSeq(UpperCase, i, i) = c
    THEN LET i == CHOOSE i \in 1..Len(UpperCase) : SubSeq(UpperCase, i, i) = c
         IN  SubSeq(LowerCase, i, i)
    ELSE c

\* str.lower()
RECURSIVE lower(_)
lower(s) ==
    IF Len(s) = 0 THEN ""
    ELSE lower_char(SubSeq(s, 1, 1)) \o lower(SubSeq(s, 2, Len(s)))

\* t in s
contains(t, s) == \E i \in 1..(Len(s) - Len(t) + 1) : SubSeq(s, i, i + Len(t) - 1) = t

\* a or b, for a string or a list a
py_or(a, b) == IF Len(a) = 0 THEN b ELSE a

\* d[k] = v
Put(d, k, v) == [x \in DOMAIN d \cup {k} |-> IF x = k THEN v ELSE d[x]]
EmptyDict == <<>>

(***************************************************************************)
(* API router                                                              *)
(***************************************************************************)
\* GET /cameras/{camera_name}/clip awaits the value of the synchronous
\* FrigateService.get_camera_clip: when that call returns, the await raises.
route_get_camera_clip(camera_name, start_time, end_time, up) ==
    LET r == get_camera_clip(camera_name, start_time, end_time, up)
    IN  IF Raised(r.res) THEN r
        ELSE Out(Unhandled("TypeError", "object StreamingResponse can't be used in 'await' expression"), r.reqs)

\* Mutant: POST /rules/ answers "Rule added" whatever the store said.
add_rule_ignore(rule, rs) ==
    LET a == redis_add_rule(rs, rule.id, rule)
    IN  [res |-> OkR("Rule added"), rules |-> a.rules]

\* Mutant: the rule is stored without its unset fields (dict(exclude_none=True)).
add_rule_exclude_none(rule, rs) ==
    LET stored == [rule EXCEPT !.camera = IF @ = NoneVal THEN Missing ELSE @]
        a == redis_add_rule(rs, rule.id, stored)
    IN  [res |-> IF ~a.ok THEN HTTPException(400, "Rule ID already exists")
                 ELSE OkR("Rule added"),
         rules |-> a.rules]

\* Mutant: an id that exists is overwritten (delete, then add again).
add_rule_upsert(rule, rs) ==
    LET a == redis_add_rule(redis_delete_rule(rs, rule.id).rules, rule.id, rule)
    IN  [res |-> OkR("Rule added"), rules |-> a.rules]

\* Mutant: the rule is written without looking for its id.
add_rule_blind(rule, rs) ==
    [res |-> OkR("Rule added"), rules |-> rs \cup {rule}]

\* POST /rules/
add_rule(rule, rs) ==
    LET a == redis_add_rule(rs, rule.id, rule)
    IN  [res |-> IF ~a.ok THEN HTTPException(400, "Rule ID already exists")
                 ELSE OkR("Rule added"),
         rules |-> a.rules]

\* GET /rules/{rule_id}
get_rule(rule_id, rs) ==
    LET rule == redis_get_rule(rs, rule_id)
    IN  [res |-> IF rule = NoRule THEN HTTPException(404, "Rule not found")
                 ELSE OkR("rule"),
         rule |-> rule]

\* Mutant: DELETE answers "deleted" whatever the store said.
delete_rule_ignore(rule_id, rs) ==
    LET d == redis_delete_rule(rs, rule_id)
    IN  [res |-> OkR("Rule " \o rule_id \o " deleted"), rules |-> d.rules]

\* Mutant: DELETE looks the rule up and answers, the table stays as it is.
delete_rule_keep(rule_id, rs) ==
    LET d == redis_delete_rule(rs, rule_id)
    IN  [res |-> IF ~d.ok THEN HTTPException(404, "Rule not found")
                 ELSE OkR("Rule " \o rule_id \o " deleted"),
         rules |-> rs]

\* DELETE /rules/{rule_id}
delete_rule(rule_id, rs) ==
    LET d == redis_delete_rule(rs, rule_id)
    IN  [res |-> IF ~d.ok THEN HTTPException(404, "Rule not found")
                 ELSE OkR("Rule " \o rule_id \o " deleted"),
         rules |-> d.rules]

\* GET /rules/
list_rules(rs) == [res |-> OkR("rules"), listed |-> redis_get_rules(rs)]

\* The result of a listing: how it ended, the requests it sent and the
\* body it built.
Listing(r, q, out) == [res |-> r, reqs |-> q, output |-> out]

\* Mutant: only the action "search" itself is left to the search listing.
summaries_skip_exact(rule) == rule.action = "search"

\* "search" in action.lower(), worked out once for every action text.
ContainsSearch == [a \in RuleActions |-> contains("search", lower(a))]

\* GET /rules/responses/: rules whose action contains "search" are skipped.
summaries_skip(rule) == ContainsSearch[rule.action]

\* The inner loop of GET /rules/responses/ over the job ids of one rule.
RECURSIVE rule_summaries(_, _, _, _)
rule_summaries(summary_ids, up, js, acc) ==
    IF summary_ids = <<>> THEN acc
    ELSE LET sid == Head(summary_ids)
             g == summary(sid, up, js)
         IN  IF Raised(g.res)
             THEN Listing(g.res, acc.reqs \o g.reqs, acc.output)
             ELSE rule_summaries(Tail(summary_ids), up, js,
                      Listing(acc.res, acc.reqs \o g.reqs,
                              Put(acc.output, sid, py_or(g.res.val, "Pending"))))

\* The loop of GET /rules/responses/ over the rules.
RECURSIVE summaries_loop(_, _, _, _, _, _)
summaries_loop(rs, sids, fault, up, js, acc) ==
    IF rs = <<>> THEN acc
    ELSE LET rule == Head(rs)
             rule_id == rule.id
         IN  IF summaries_skip(rule)
             THEN summaries_loop(Tail(rs), sids, fault, up, js, acc)
             ELSE IF fault = rule_id
             THEN Listing(StoreError, acc.reqs, acc.output)
             ELSE LET s == rule_summaries(redis_get_summary_ids(sids, rule_id), up, js,
                                          Listing(acc.res, acc.reqs, EmptyDict))
                  IN  IF Raised(s.res)
                      THEN Listing(s.res, s.reqs, acc.output)
                      ELSE summaries_loop(Tail(rs), sids, fault, up, js,
                               Listing(acc.res, s.reqs, Put(acc.output, rule_id, s.output)))

\* GET /rules/responses/: nothing is caught, so an exception is the answer
\* and the body built so far is dropped.
get_all_rule_summaries(rs, order, sids, fault, up, js) ==
    IF fault = "get_rules" THEN Listing(StoreError, <<>>, EmptyDict)
    ELSE LET l == summaries_loop(RulesInOrder(redis_get_rules(rs), order), sids, fault, up, js,
                                 Listing(OkR("output"), <<>>, EmptyDict))
         IN  IF Raised(l.res) THEN Listing(l.res, l.reqs, EmptyDict) ELSE l

PendingPlaceholder == [status |-> "Pending"]

\* Mutant: the stored results are returned as they are.
search_entry_raw(results) == results

\* results or [{"status": "Pending"}]
search_entry(results) == py_or(results, <<PendingPlaceholder>>)

\* The loop of GET /rules/search-responses/ over the rules.
RECURSIVE search_loop(_, _, _, _)
search_loop(rs, srs, fault, acc) ==
    IF rs = <<>> THEN acc
    ELSE LET rule == Head(rs)
         IN  IF rule.action = "add to search"
             THEN IF fault = rule.id
                  THEN Listing(StoreError, acc.reqs, acc.output)
                  ELSE search_loop(Tail(rs), srs, fault,
                           Listing(acc.res, acc.reqs,
                                   Put(acc.output, rule.id,
                                       search_entry(redis_get_search_results_by_rule(srs, rule.id)))))
             ELSE search_loop(Tail(rs), srs, fault, acc)

\* GET /rules/search-responses/: every exception is caught and answered
\* with {"error": str(e)} alone.
get_search_responses(rs, order, srs, fault) ==
    LET l == IF fault = "get_rules" THEN Listing(StoreError, <<>>, EmptyDict)
             ELSE search_loop(RulesInOrder(redis_get_rules(rs), order), srs, fault,
                              Listing(OkR("output"), <<>>, EmptyDict))
    IN  IF Raised(l.res)
        THEN Listing(OkR("output"), l.reqs, Put(EmptyDict, "error", l.res.val))
        ELSE l


(***************************************************************************)
(* State                                                                   *)
(***************************************************************************)
VARIABLES
    call,       \* the operation in progress, or the last one completed
    tmpfiles,   \* names of the files in the temporary directory
    tmpSeq,     \* temporary files created so far (names are never reused)
    videos,     \* analysis backend: number of videos accepted
    jobs,       \* analysis backend: summary field of pipeline p1, p2, ...
    rules,      \* rule table: the stored rule records
    added,      \* per rule id, the rule its last successful add passed,
                \* DeletedRule once a delete of the id succeeded
    summaryIds,     \* store: per rule id, the pipeline ids recorded for it
    searchResults,  \* store: per rule id, the search results recorded for it
    pend,           \* per concurrent caller, its rule request and the answer
    polling_threads,    \* UI: summary id -> handle of the poller started last
    threads,        \* UI: the polling threads started so far
    status_output,  \* UI: the text of the status box
    ui              \* UI: the process_video call and its result

\* The result index of the store.
ext == <<summaryIds, searchResults>>

\* The concurrent callers of the rule routes and the pollers of the UI.
bg == <<pend, polling_threads, threads, status_output>>

vars == <<call, tmpfiles, tmpSeq, videos, jobs, rules, added, ext, bg, ui>>

Idle ==
    [op |-> "none", camera |-> "", st |-> 0, et |-> 0, arg |-> "",
     up |-> "ok",      \* what the service asked first does with its request
     upU |-> "ok",     \* what the analysis backend does with an upload
     upS |-> "ok",     \* what the analysis backend does with a submission
     seen |-> NoneVal, \* the summary field of the pipeline asked for
     rule |-> NoRule,  \* the rule sent with, or returned by, a rule operation
     listed |-> {},    \* the rules a listing returned
     fault |-> "none", \* what went wrong with the store during a listing
     output |-> EmptyDict,  \* the body of a result listing
     pc |-> "done", tmp |-> 0, written |-> 0, stages |-> <<>>, reqs |-> <<>>,
     res |-> NoRes]

\* The summary field the analysis backend holds for a pipeline id.
Unknown == "<unknown>"
SummaryField(js, pid) ==
    IF JobIndex(js, pid) = {} THEN Unknown
    ELSE js[CHOOSE i \in JobIndex(js, pid) : TRUE]

\* The record of an operation that ran to its end in one step.
Completed(op, camera_name, start_time, end_time, arg, up, o) ==
    [Idle EXCEPT !.op = op, !.camera = camera_name, !.st = start_time,
                 !.et = end_time, !.arg = arg, !.up = up,
                 !.reqs = o.reqs, !.res = o.res, !.pc = PcAfter(o.res)]

\* process_video before its first call.
NoTime == -1        \* None in the place of a timestamp
UiIdle ==
    [pc |-> "idle", action |-> "", start |-> NoTime, end |-> NoTime,
     reqs |-> 0,            \* the API requests the call has sent
     answered |-> FALSE,    \* the API answered within the timeout
     res |-> NoRes]

\* The clients that call the rule routes at the same time.
Callers == {"c1", "c2", "c3"}
NoRequest == [op |-> "none", rule |-> NoRule, pc |-> "idle", res |-> NoRes]

Init ==
    /\ call = Idle
    /\ tmpfiles = {}
    /\ tmpSeq = 0
    /\ videos = 0
    /\ jobs = <<>>
    /\ rules = {}
    /\ added = [id \in RuleIds |-> NoRule]
    /\ summaryIds = [id \in RuleIds |-> <<>>]
    /\ searchResults = [id \in RuleIds |-> <<>>]
    /\ pend = [c \in Callers |-> NoRequest]
    /\ polling_threads = EmptyDict
    /\ threads = <<>>
    /\ status_output = "Waiting..."
    /\ ui = UiIdle

\* The analysis backend after the requests of one operation.
Backend(reqs) ==
    /\ videos' = VideosAfter(videos, reqs)
    /\ jobs' = JobsAfter(jobs, reqs)
    /\ videos' <= MaxVideos
    /\ Len(jobs') <= MaxJobs

(***************************************************************************)
(* Clip and export endpoints                                               *)
(***************************************************************************)
GetCameraClip ==
    \E c \in Cameras, s \in StartTimes, e \in EndTimes, up \in Upstream :
        /\ call.pc = "done"
        /\ call' = Completed("get_camera_clip", c, s, e, "", up,
                             route_get_camera_clip(c, s, e, up))
        /\ UNCHANGED <<ui, bg, added, ext, tmpfiles, tmpSeq, videos, jobs, rules>>

ExportCameraClip ==
    \E c \in Cameras, s \in StartTimes, e \in EndTimes, up \in Upstream :
        /\ call.pc = "done"
        /\ call' = Completed("export_camera_clip", c, s, e, "", up,
                             export_camera_clip(c, s, e, up))
        /\ UNCHANGED <<ui, bg, added, ext, tmpfiles, tmpSeq, videos, jobs, rules>>

(***************************************************************************)
(* summarize / search_embeddings.  The coroutine runs from the request to  *)
(* the first write without suspending, suspends at every chunk it writes,  *)
(* and runs from the end of the stream to its exit without suspending.     *)
(***************************************************************************)
BeginSubmission(op, c, s, e, up) ==
    /\ call.pc = "done"
    /\ LET f == upload_fetch(c, s, e, up)
           started == [Idle EXCEPT !.op = op, !.camera = c, !.st = s, !.et = e,
                                   !.up = up, !.reqs = f.reqs,
                                   !.stages = <<Stage("fetch", f.res)>>]
       IN  IF Raised(f.res)
           THEN /\ call' = [started EXCEPT !.res = f.res, !.pc = PcAfter(f.res)]
                /\ UNCHANGED <<bg, added, ext, tmpfiles, tmpSeq>>
           ELSE /\ tmpSeq < MaxTmp
                /\ tmpSeq' = tmpSeq + 1
                /\ tmpfiles' = tmpfiles \cup {tmpSeq + 1}
                /\ call' = [started EXCEPT !.pc = "write", !.tmp = tmpSeq + 1]
    /\ UNCHANGED <<bg, added, ext, videos, jobs, rules>>

Summarize ==
    \E c \in Cameras, s \in StartTimes, e \in EndTimes, up \in Upstream :
        /\ BeginSubmission("summarize", c, s, e, up)
        /\ UNCHANGED ui

SearchEmbeddings ==
    \E c \in Cameras, s \in StartTimes, e \in EndTimes, up \in Upstream :
        /\ BeginSubmission("search_embeddings", c, s, e, up)
        /\ UNCHANGED ui

\* `await f.write(chunk)` for the next chunk of the body.
WriteChunk ==
    /\ call.pc = "write"
    /\ call.written < ClipChunks
    /\ call' = [call EXCEPT !.written = @ + 1]
    /\ UNCHANGED <<ui, bg, added, ext, tmpfiles, tmpSeq, videos, jobs, rules>>

\* The body iterator (or the write) raises: logged and re-raised.
StreamError ==
    /\ call.pc = "write"
    /\ LET r == Unhandled("ChunkedEncodingError", "connection broken")
       IN  call' = [call EXCEPT !.pc = "done", !.res = r,
                                !.stages = @ \o <<Stage("write", r)>>]
    /\ UNCHANGED <<ui, bg, added, ext, tmpfiles, tmpSeq, videos, jobs, rules>>

\* The body iterator ends (after the last chunk, or earlier when the footage
\* source closes the stream): upload, then the rest of the operation.
FinishSubmission ==
    \E upU \in Upstream, upS \in Upstream :
        /\ call.pc = "write"
        /\ LET u == upload_stage(call.tmp, tmpfiles, upU, videos)
               t == IF call.op = "summarize"
                    THEN summarize_tail(u, upS, jobs)
                    ELSE search_embeddings_tail(u, upS)
           IN  /\ call' = [call EXCEPT !.pc = PcAfter(t.res), !.res = t.res,
                                       !.upU = upU, !.upS = upS,
                                       !.reqs = @ \o t.reqs,
                                       !.stages = @ \o <<Stage("write", OkR(NoneVal))>> \o t.stages]
               /\ Backend(t.reqs)
        /\ tmpfiles' = upload_cleanup(tmpfiles, call.tmp)
        /\ UNCHANGED <<ui, bg, added, ext, tmpSeq, rules>>

(***************************************************************************)
(* GET /summary-status/{summary_id}                                        *)
(***************************************************************************)
PidsAsked == {Pid(i) : i \in 1..MaxJobs}

GetSummary ==
    \E id \in PidsAsked, up \in Upstream :
        /\ call.pc = "done"
        /\ LET o == summary(id, up, jobs)
           IN  /\ call' = [Completed("summary", "", 0, 0, id, up, o)
                            EXCEPT !.seen = SummaryField(jobs, id)]
               /\ Backend(o.reqs)
        /\ UNCHANGED <<ui, bg, added, ext, tmpfiles, tmpSeq, rules>>

(***************************************************************************)
(* SummarizationService called with its base_url                           *)
(***************************************************************************)
VideoUpload ==
    \E path \in 1..MaxTmp, up \in Upstream :
        /\ call.pc = "done"
        /\ LET o == video_upload(path, VssBaseUrl, tmpfiles, up, videos)
           IN  /\ call' = [Completed("video_upload", "", 0, 0, "", up, o) EXCEPT !.tmp = path]
               /\ Backend(o.reqs)
        /\ UNCHANGED <<ui, bg, added, ext, tmpfiles, tmpSeq, rules>>

CreateSummary ==
    \E n \in 1..MaxVideos, up \in Upstream :
        /\ call.pc = "done"
        /\ n <= videos
        /\ LET o == create_summary(VideoId(n), VssBaseUrl, up, jobs)
           IN  /\ call' = Completed("create_summary", "", 0, 0, VideoId(n), up, o)
               /\ Backend(o.reqs)
        /\ UNCHANGED <<ui, bg, added, ext, tmpfiles, tmpSeq, rules>>

GetSummaryResult ==
    \E id \in PidsAsked, up \in Upstream :
        /\ call.pc = "done"
        /\ LET o == get_summary_result(id, VssBaseUrl, up, jobs)
           IN  /\ call' = [Completed("get_summary_result", "", 0, 0, id, up, o)
                            EXCEPT !.seen = SummaryField(jobs, id)]
               /\ Backend(o.reqs)
        /\ UNCHANGED <<ui, bg, added, ext, tmpfiles, tmpSeq, rules>>

\* The analysis backend works on a pipeline: its summary field appears.
BackendProgress ==
    \E i \in 1..Len(jobs) :
        /\ jobs[i] # SummaryText
        /\ jobs' = [jobs EXCEPT ![i] = IF @ = NoneVal THEN "" ELSE SummaryText]
        /\ UNCHANGED <<ui, bg, added, ext, call, tmpfiles, tmpSeq, videos, rules>>

BackendFinish ==
    \E i \in 1..Len(jobs) :
        /\ jobs[i] = NoneVal
        /\ jobs' = [jobs EXCEPT ![i] = SummaryText]
        /\ UNCHANGED <<ui, bg, added, ext, call, tmpfiles, tmpSeq, videos, rules>>

Next ==
    \/ GetCameraClip
    \/ ExportCameraClip
    \/ Summarize
    \/ SearchEmbeddings
    \/ WriteChunk
    \/ StreamError
    \/ FinishSubmission
    \/ GetSummary
    \/ VideoUpload
    \/ CreateSummary
    \/ GetSummaryResult
    \/ BackendProgress
    \/ BackendFinish

Spec == Init /\ [][Next]_vars

(***************************************************************************)
(* Rule table endpoints                                                    *)
(***************************************************************************)
AddRule ==
    \E rule \in Rule :
        /\ call.pc = "done"
        /\ LET o == add_rule(rule, rules)
           IN  /\ call' = [Idle EXCEPT !.op = "add_rule", !.arg = rule.id,
                                       !.rule = rule, !.res = o.res]
               /\ rules' = o.rules
               /\ added' = IF Raised(o.res) THEN added
                           ELSE [added EXCEPT ![rule.id] = rule]
        /\ UNCHANGED <<ui, bg, ext, tmpfiles, tmpSeq, videos, jobs>>

GetRule ==
    \E id \in RuleIds :
        /\ call.pc = "done"
        /\ LET o == get_rule(id, rules)
           IN  call' = [Idle EXCEPT !.op = "get_rule", !.arg = id,
                                    !.rule = o.rule, !.res = o.res]
        /\ UNCHANGED <<ui, bg, added, ext, tmpfiles, tmpSeq, videos, jobs, rules>>

DeleteRule ==
    \E id \in RuleIds :
        /\ call.pc = "done"
        /\ LET o == delete_rule(id, rules)
           IN  /\ call' = [Idle EXCEPT !.op = "delete_rule", !.arg = id, !.res = o.res]
               /\ rules' = o.rules
               /\ added' = IF Raised(o.res) THEN added
                           ELSE [added EXCEPT ![id] = DeletedRule]
               /\ summaryIds' = IF Raised(o.res) THEN summaryIds
                                ELSE redis_delete_index(summaryIds, id)
               /\ searchResults' = IF Raised(o.res) THEN searchResults
                                   ELSE redis_delete_index(searchResults, id)
        /\ UNCHANGED <<ui, bg, tmpfiles, tmpSeq, videos, jobs>>

ListRules ==
    /\ call.pc = "done"
    /\ LET o == list_rules(rules)
       IN  call' = [Idle EXCEPT !.op = "list_rules", !.listed = o.listed, !.res = o.res]
    /\ UNCHANGED <<ui, bg, added, ext, tmpfiles, tmpSeq, videos, jobs, rules>>

GetAllRuleSummaries ==
    \E order \in RuleOrders, fault \in StoreFaults, up \in Upstream :
        /\ call.pc = "done"
        /\ LET o == get_all_rule_summaries(rules, order, summaryIds, fault, up, jobs)
           IN  /\ call' = [Idle EXCEPT !.op = "get_all_rule_summaries",
                                       !.up = IF o.reqs = <<>> THEN "ok" ELSE up,
                                       !.fault = fault,
                                       !.reqs = o.reqs, !.output = o.output,
                                       !.res = o.res, !.pc = PcAfter(o.res)]
               /\ Backend(o.reqs)
        /\ UNCHANGED <<ui, bg, added, ext, tmpfiles, tmpSeq, rules>>

GetSearchResponses ==
    \E order \in RuleOrders, fault \in StoreFaults :
        /\ call.pc = "done"
        /\ LET o == get_search_responses(rules, order, searchResults, fault)
           IN  call' = [Idle EXCEPT !.op = "get_search_responses",
                                    !.fault = fault,
                                    !.reqs = o.reqs, !.output = o.output,
                                    !.res = o.res]
        /\ UNCHANGED <<ui, bg, added, ext, tmpfiles, tmpSeq, videos, jobs, rules>>

\* The event router dispatched an event that matched a summarize rule: a
\* pipeline exists at the analysis backend and its id is recorded against
\* the rule.
MaxResults == 1     \* search results recorded against one rule
SearchHit == [video |-> VideoId(1)]

RecordSummaryId ==
    \E r \in rules :
        /\ ~ContainsSearch[r.action]
        /\ Len(jobs) < MaxJobs
        /\ jobs' = Append(jobs, NoneVal)
        /\ summaryIds' = [summaryIds EXCEPT ![r.id] = Append(@, Pid(Len(jobs')))]
        /\ UNCHANGED <<ui, bg, added, searchResults, call, tmpfiles, tmpSeq, videos, rules>>

\* The event router dispatched an event that matched a search rule and
\* recorded the result against the rule.
RecordSearchResult ==
    \E r \in rules :
        /\ r.action = "add to search"
        /\ Len(searchResults[r.id]) < MaxResults
        /\ searchResults' = [searchResults EXCEPT ![r.id] = Append(@, SearchHit)]
        /\ UNCHANGED <<ui, bg, added, summaryIds, call, tmpfiles, tmpSeq, videos, jobs, rules>>

NextRules ==
    \/ AddRule
    \/ GetRule
    \/ DeleteRule
    \/ ListRules
    \/ GetAllRuleSummaries
    \/ GetSearchResponses
    \/ RecordSummaryId
    \/ RecordSearchResult
    \/ BackendProgress
    \/ BackendFinish

RuleSpec == Init /\ [][NextRules]_vars

(***************************************************************************)
(* Rule routes under concurrent callers: every caller sends one request;   *)
(* the requests in flight are served in any order, each with one call of   *)
(* the store.                                                              *)
(***************************************************************************)
ConcRules == {r \in Rule : r.action = "Summarize"}

Arrive ==
    \E c \in Callers, op \in {"add_rule", "delete_rule"}, rule \in ConcRules :
        /\ pend[c].pc = "idle"
        /\ pend' = [pend EXCEPT ![c] =
                      [op |-> op,
                       rule |-> IF op = "add_rule" THEN rule
                                ELSE [NoRule EXCEPT !.id = rule.id],
                       pc |-> "called", res |-> NoRes]]
        /\ UNCHANGED <<ui, call, tmpfiles, tmpSeq, videos, jobs, rules, added, ext,
                       polling_threads, threads, status_output>>

ServeAdd ==
    \E c \in Callers :
        /\ pend[c].pc = "called"
        /\ pend[c].op = "add_rule"
        /\ LET o == add_rule(pend[c].rule, rules)
           IN  /\ pend' = [pend EXCEPT ![c].pc = "answered", ![c].res = o.res]
               /\ rules' = o.rules
               /\ added' = IF Raised(o.res) THEN added
                           ELSE [added EXCEPT ![pend[c].rule.id] = pend[c].rule]
        /\ UNCHANGED <<ui, call, tmpfiles, tmpSeq, videos, jobs, ext,
                       polling_threads, threads, status_output>>

ServeDelete ==
    \E c \in Callers :
        /\ pend[c].pc = "called"
        /\ pend[c].op = "delete_rule"
        /\ LET id == pend[c].rule.id
               o == delete_rule(id, rules)
           IN  /\ pend' = [pend EXCEPT ![c].pc = "answered", ![c].res = o.res]
               /\ rules' = o.rules
               /\ added' = IF Raised(o.res) THEN added
                           ELSE [added EXCEPT ![id] = DeletedRule]
               /\ summaryIds' = IF Raised(o.res) THEN summaryIds
                                ELSE redis_delete_index(summaryIds, id)
               /\ searchResults' = IF Raised(o.res) THEN searchResults
                                   ELSE redis_delete_index(searchResults, id)
        /\ UNCHANGED <<ui, call, tmpfiles, tmpSeq, videos, jobs,
                       polling_threads, threads, status_output>>

NextConc ==
    \/ Arrive
    \/ ServeAdd
    \/ ServeDelete

ConcSpec == Init /\ [][NextConc]_vars

(***************************************************************************)
(* UI: process_and_poll and the polling threads it starts                  *)
(***************************************************************************)
MaxPollers == 3     \* polling threads started in one run

PollIds == {Pid(1), Pid(2)}

\* What process_video hands back: success with the summary id of the
\* response ("N/A" when it has none), or an error or info record without.
ProcessResults ==
    [status : {"success"}, summary_id : PollIds \cup {"N/A"}]
        \cup [status : {"error", "info"}, summary_id : {NoneVal}]

\* What fetch_summary_status can hand back: an exception, a string that is
\* not JSON, a record without status, or a record with a status.
FetchResponses == {"<raises>", "<not json>", "<no status>", "processing", "completed", "failed"}
Terminal == {"completed", "failed"}

Poller(summary_id) == [sid |-> summary_id, pc |-> "check", stop |-> FALSE, seen |-> NoneVal]
Terminated(th) == th.pc \in {"done", "died"}

\* status_output.update(value=...): the click handler passes the value of
\* status_state, the str "Waiting...", and a str has no update.
status_update(box, value) ==
    IF box = "Waiting..."
    THEN [res |-> Unhandled("AttributeError", "'str' object has no attribute 'update'"),
          box |-> box]
    ELSE [res |-> OkR(value), box |-> value]

\* The body of the polling loop from the fetch on.
poll_iteration(th, response, box) ==
    LET parsed == response \notin {"<raises>", "<not json>"}
        status == IF response = "<no status>" THEN "unknown" ELSE response
        shown == status_update(box, "Status: " \o status)
        failed == ~parsed \/ Raised(shown.res)
        handler == status_update(IF parsed THEN shown.box ELSE box, "Error fetching status")
    IN  [th |-> [th EXCEPT !.seen = IF parsed THEN status ELSE @,
                           !.pc = IF failed
                                  THEN (IF Raised(handler.res) THEN "died" ELSE "done")
                                  ELSE IF status \in Terminal THEN "done"
                                  ELSE "sleep"],
         box |-> IF failed THEN handler.box ELSE shown.box]

\* One step of poll_summary_status: the loop test, the body, the sleep.
poll_summary_status(th, response, box) ==
    CASE th.pc = "check" ->
             [th |-> [th EXCEPT !.pc = IF th.stop THEN "done" ELSE "fetch"], box |-> box]
      [] th.pc = "fetch" -> poll_iteration(th, response, box)
      [] th.pc = "sleep" -> [th |-> [th EXCEPT !.pc = "check"], box |-> box]

\* process_and_poll after process_video returned.
process_and_poll(result, registry, ths) ==
    LET summary_id == result.summary_id
    IN  IF result.status = "success" /\ summary_id \notin {NoneVal, ""}
        THEN LET stopped == IF summary_id \in DOMAIN registry
                            THEN [ths EXCEPT ![registry[summary_id]].stop = TRUE]
                            ELSE ths
             IN  [polling_threads |-> Put(registry, summary_id, Len(ths) + 1),
                  threads |-> Append(stopped, Poller(summary_id))]
        ELSE [polling_threads |-> registry, threads |-> ths]

ProcessAndPoll ==
    \E result \in ProcessResults :
        /\ Len(threads) < MaxPollers
        /\ LET o == process_and_poll(result, polling_threads, threads)
           IN  /\ polling_threads' = o.polling_threads
               /\ threads' = o.threads
        /\ UNCHANGED <<ui, call, tmpfiles, tmpSeq, videos, jobs, rules, added, ext,
                       pend, status_output>>

PollSummaryStatus ==
    \E t \in DOMAIN threads, response \in FetchResponses :
        /\ ~Terminated(threads[t])
        /\ LET o == poll_summary_status(threads[t], response, status_output)
           IN  /\ threads' = [threads EXCEPT ![t] = o.th]
               /\ status_output' = o.box
        /\ UNCHANGED <<ui, call, tmpfiles, tmpSeq, videos, jobs, rules, added, ext,
                       pend, polling_threads>>

NextPoll ==
    \/ ProcessAndPoll
    \/ PollSummaryStatus

PollSpec == Init /\ [][NextPoll]_vars

(***************************************************************************)
(* UI: process_video and the summarize request it sends to the API         *)
(***************************************************************************)
UiActions == {"Summarize", "Add to Search", "Export"}

\* The values of the two time inputs: nothing selected, a string that is no
\* ISO date, a Unix timestamp.
TimeInputs == [kind : {"none", "str"}, v : {0}] \cup [kind : {"ts"}, v : StartTimes]

\* parse_input_to_timestamp: (None, None) for None and for what raises in
\* the conversion, else the timestamp.
parse_input_to_timestamp(input_val) ==
    IF input_val.kind = "ts" THEN input_val.v ELSE NoTime

UiResult(status, summary_id, error_type) ==
    OkR([status |-> status, summary_id |-> summary_id, error_type |-> error_type])

\* Mutant: the order of the two times is checked with >.
ui_validate_gt(start_time, end_time) ==
    IF start_time = NoTime \/ end_time = NoTime THEN UiResult("error", NoneVal, "")
    ELSE IF start_time > end_time THEN UiResult("error", NoneVal, "")
    ELSE NoRes

\* process_video, validation: the result it returns, NoRes when it goes on.
ui_validate(start_time, end_time) ==
    IF start_time = NoTime \/ end_time = NoTime THEN UiResult("error", NoneVal, "")
    ELSE IF start_time >= end_time THEN UiResult("error", NoneVal, "")
    ELSE NoRes

\* process_video, the actions that send nothing.
ui_dispatch(action) ==
    IF action = "Add to Search" THEN UiResult("info", NoneVal, "")
    ELSE UiResult("error", NoneVal, "")

\* response.json() of GET /summary/{camera}: summarize returns
\* pipeline["summaryPipelineId"], so the body is a JSON string.
response_json(r) == [t |-> "str", v |-> r.val]

\* result.get(key, default)
dict_get(body, key, default) ==
    IF body.t # "dict"
    THEN Unhandled("AttributeError", "'str' object has no attribute 'get'")
    ELSE OkR(IF key \in DOMAIN body.v THEN body.v[key] ELSE default)

\* process_video from raise_for_status on: r is what the API answered.
ui_response(r) ==
    IF Raised(r) THEN UiResult("error", NoneVal, "HTTPError")
    ELSE LET summary_id == dict_get(response_json(r), "summary_id", "N/A")
         IN  IF Raised(summary_id) THEN UiResult("error", NoneVal, summary_id.kind)
             ELSE UiResult("success", summary_id.val, "")

\* requests.get(..., timeout=30) gave up.
ui_timeout == UiResult("error", NoneVal, "ReadTimeout")

ProcessVideo ==
    \E c \in Cameras, si \in TimeInputs, ei \in TimeInputs, action \in UiActions :
        /\ ui.pc # "waiting"
        /\ LET start_time == parse_input_to_timestamp(si)
               end_time == parse_input_to_timestamp(ei)
               v == ui_validate(start_time, end_time)
               begun == [UiIdle EXCEPT !.action = action, !.start = start_time,
                                       !.end = end_time]
           IN  IF v # NoRes \/ action # "Summarize"
               THEN /\ ui' = [begun EXCEPT !.pc = "done",
                                           !.res = IF v # NoRes THEN v ELSE ui_dispatch(action)]
                    /\ UNCHANGED <<call, tmpfiles, tmpSeq, videos, jobs, rules, added, ext, bg>>
               ELSE /\ ui' = [begun EXCEPT !.pc = "waiting", !.reqs = 1]
                    /\ \E up \in Upstream :
                           BeginSubmission("summarize", c, start_time, end_time, up)

\* The API answered the request process_video is waiting for.
UiResponse ==
    /\ ui.pc = "waiting"
    /\ call.pc = "done"
    /\ ui' = [ui EXCEPT !.pc = "done", !.answered = TRUE, !.res = ui_response(call.res)]
    /\ UNCHANGED <<call, tmpfiles, tmpSeq, videos, jobs, rules, added, ext, bg>>

\* The 30 seconds passed before the API answered.
UiTimeout ==
    /\ ui.pc = "waiting"
    /\ call.pc # "done"
    /\ ui' = [ui EXCEPT !.pc = "done", !.res = ui_timeout]
    /\ UNCHANGED <<call, tmpfiles, tmpSeq, videos, jobs, rules, added, ext, bg>>

NextUi ==
    \/ ProcessVideo
    \/ WriteChunk
    \/ StreamError
    \/ FinishSubmission
    \/ UiResponse
    \/ UiTimeout

UiSpec == Init /\ [][NextUi]_vars

(***************************************************************************)
(* Properties                                                              *)
(***************************************************************************)
TimedOps == {"get_camera_clip", "export_camera_clip", "summarize", "search_embeddings"}
Submissions == {"summarize", "search_embeddings"}
ValidationError(r) == r.kind = "HTTPException" /\ r.code = 400

\* C1: a clip, export or summarize request whose end_time <= start_time has
\* ended with a validation error (400) and has issued no request to the
\* footage source or the analysis backend.
C1_ReversedRangeRejected ==
    (call.op \in {"get_camera_clip", "export_camera_clip", "summarize"}
        /\ call.et <= call.st)
    => /\ call.pc = "done"
       /\ ValidationError(call.res)
       /\ call.reqs = <<>>
       /\ call.tmp = 0

\* C1 witness: a summarize request with a reversed range was rejected.
C1_Witness ==
    /\ call.op = "summarize"
    /\ call.st = 10 /\ call.et = 0
    /\ ValidationError(call.res)

\* C2: a clip, export, summarize or search-embeddings request whose range is
\* longer than 300 seconds ends with a validation error and issues no
\* request; summarize never fetches a clip longer than 300 seconds.
C2_LongRangeRejected ==
    (call.op \in TimedOps /\ call.et - call.st > MaxClipSeconds)
    => /\ call.pc = "done"
       /\ ValidationError(call.res)
       /\ call.reqs = <<>>

\* C3: whenever no submission is in progress the temporary directory holds
\* no staged artifact.
C3_NoArtifactAtRest ==
    call.pc = "done" => tmpfiles = {}
StageOrder == <<"fetch", "write", "upload", "submit">>

\* C4: in summarize and search_embeddings the stages run in the order fetch,
\* write, upload, submit; no stage is attempted after a stage that failed, and
\* the error of the failed stage is the result of the operation.
C4_StagesInOrderAbortOnFailure ==
    call.op \in Submissions =>
        LET st == call.stages
            n == Len(st)
        IN  /\ n <= Len(StageOrder)
            /\ \A i \in 1..n : st[i].stage = StageOrder[i]
            /\ \A i \in 1..(n - 1) : st[i].ok
            /\ call.pc = "done" => n > 0 /\ call.res = st[n].res

\* C4 witness: fetch and write succeeded, the upload stage failed, its error
\* is the result and no submission was attempted.
C4_Witness ==
    /\ call.op = "summarize"
    /\ call.pc = "done"
    /\ Len(call.stages) = 3
    /\ call.stages[2].ok
    /\ ~call.stages[3].ok
    /\ call.res = call.stages[3].res

\* C5: for a valid range, a clip the footage source returned in full, an
\* upload the backend accepts with videoId v and a submission it accepts with
\* pipeline id p, summarize returns p and its submission carried v.
C5_SummarizeReturnsPipeline ==
    (/\ call.op = "summarize" /\ call.pc = "done"
     /\ call.et > call.st /\ call.et - call.st <= MaxClipSeconds
     /\ call.up = "ok"
     /\ call.written = ClipChunks /\ call.res.kind # "ChunkedEncodingError"
     /\ call.upU = "ok" /\ call.upS = "ok")
    => /\ call.res.kind = "return"
       /\ JobIndex(jobs, call.res.val) # {}
       /\ \E i \in DOMAIN call.stages, j \in DOMAIN call.reqs :
            /\ call.stages[i].stage = "upload" /\ call.stages[i].ok
            /\ call.reqs[j].what = "POST /manager/summary"
            /\ call.reqs[j].arg = call.stages[i].res.val

\* C6: summary maps a non-empty summary field to that summary and an empty or
\* absent one to the fixed "still generating" message, never to an error.
C6_StatusMapping ==
    (call.op = "summary" /\ call.up = "ok" /\ call.seen # Unknown)
    => IF call.seen \in {NoneVal, ""}
       THEN call.res = OkR(PendingMessage)
       ELSE call.res = OkR(call.seen)

\* C7: when the status fetch fails, summary reports a failure that carries
\* the upstream detail; it never reports pending or ready.
C7_FailedFetchReported ==
    (call.op = "summary" /\ call.up # "ok")
    => /\ Raised(call.res)
       /\ call.res.val = "Failed to get summary result: " \o call.up

\* C8: summary is a pure read: a call changes neither the analysis backend
\* nor the temporary directory nor the rule table, it issues nothing but GET
\* requests, and a call that follows another for the same pipeline with the
\* backend in the same state returns the same result.
C8_SummaryIsPureRead ==
    [][(call' # call /\ call'.op = "summary")
        => /\ UNCHANGED <<ui, bg, added, ext, jobs, videos, tmpfiles, tmpSeq, rules>>
           /\ \A i \in DOMAIN call'.reqs : call'.reqs[i].what = "GET /manager/summary"
           /\ (/\ call.op = "summary" /\ call.arg = call'.arg
               /\ call.up = call'.up /\ call.seen = call'.seen)
              => call'.res = call.res]_vars

\* C8 witness: summary was called for a pipeline the backend holds, and the
\* pipeline is as the call found it.
C8_Witness ==
    /\ call.op = "summary"
    /\ call.seen # Unknown
    /\ SummaryField(jobs, call.arg) = call.seen
RuleIdsUnique == \A r1 \in rules, r2 \in rules : r1.id = r2.id => r1 = r2

\* C9: adding a rule whose id already exists is rejected with a conflict
\* indication and leaves the table unchanged, the stored rule keeping its
\* original fields; rule ids are unique in every reachable state.
C9_DuplicateAddRejected ==
    /\ []RuleIdsUnique
    /\ [][(call' # call /\ call'.op = "add_rule"
            /\ \E r \in rules : r.id = call'.arg)
           => /\ rules' = rules
              /\ Raised(call'.res)
              /\ call'.res.val = "Rule ID already exists"]_vars

\* C9 witness: an add was rejected for an id the table holds with other
\* fields than the ones sent.
C9_Witness ==
    /\ call.op = "add_rule"
    /\ Raised(call.res)
    /\ \E r \in rules : r.id = call.arg /\ r # call.rule

\* C10: each failure kind is answered with its stated code: an invalid time
\* range with 400, a missing clip, rule or export with 404, a duplicate rule
\* id with 409, an unavailable upstream with 502.
C10_StatusCodes ==
    /\ (call.op \in TimedOps /\ call.pc = "done"
            /\ Raised(_validate_time_range(call.st, call.et)))
       => call.res.code = 400
    /\ (call.op \in TimedOps /\ call.pc = "done" /\ call.reqs # <<>>
            /\ Len(call.stages) <= 1 /\ call.up = "404")
       => call.res.code = 404
    /\ (call.op \in TimedOps /\ call.pc = "done" /\ call.reqs # <<>>
            /\ Len(call.stages) <= 1 /\ call.up \in {"500", "conn"})
       => call.res.code = 502
    /\ (call.op \in {"get_rule", "delete_rule"} /\ Raised(call.res))
       => call.res.code = 404
    /\ (call.op = "add_rule" /\ Raised(call.res))
       => call.res.code = 409
NotFound(r) == r.kind = "HTTPException" /\ r.code = 404

\* C11: deleting a rule id that is not in the table answers not-found (404)
\* and leaves the table unchanged; fetching such an id answers not-found.
C11_MissingRuleNotFound ==
    [][(call' # call /\ call'.op \in {"delete_rule", "get_rule"}
            /\ ~HasRule(rules, call'.arg))
        => /\ NotFound(call'.res)
           /\ rules' = rules]_vars

\* C11 witness: a delete of an absent id was answered 404 while the table
\* holds another rule.
C11_Witness ==
    /\ call.op = "delete_rule"
    /\ NotFound(call.res)
    /\ ~HasRule(rules, call.arg)
    /\ rules # {}

C15_RulesNeverModified ==
    [][/\ \A r \in rules : HasRule(rules', r.id) => r \in rules'
       /\ \A r \in rules' : r \notin rules => call'.op = "add_rule" /\ call'.rule = r
       /\ \A r \in rules : r \notin rules' => call'.op = "delete_rule" /\ call'.arg = r.id]_vars

\* C15 witness: an add for an id the table holds with other fields has just
\* been answered and the stored rule still has its fields.
C15_Witness ==
    /\ call.op = "add_rule"
    /\ \E r \in rules : r.id = call.arg /\ r = added[call.arg] /\ r # call.rule

ListingOps == {"get_all_rule_summaries", "get_search_responses"}

\* C14: once a delete of an id succeeded, and until the id is added again,
\* the table and the result index hold nothing for it: a get answers
\* not-found, the rule list omits it, and neither result listing has an
\* entry for it.
C14_DeletedRuleGone ==
    \A id \in RuleIds :
        added[id] = DeletedRule
        => /\ ~HasRule(rules, id)
           /\ summaryIds[id] = <<>>
           /\ searchResults[id] = <<>>
           /\ (call.op = "get_rule" /\ call.arg = id) => NotFound(call.res)
           /\ call.op = "list_rules" => ~HasRule(call.listed, id)
           /\ call.op \in ListingOps => id \notin DOMAIN call.output

\* C14 witness: a result listing with an entry for another rule was answered
\* after a rule was deleted.
C14_Witness ==
    /\ call.op \in ListingOps
    /\ \E id \in RuleIds : added[id] = DeletedRule
    /\ DOMAIN call.output \cap RuleIds # {}

\* C16: whatever the table holds, no rule id is a key of both the summarize
\* listing and the search listing.
C16_ListingsExclusive ==
    /\ call.op = "get_all_rule_summaries"
       => \A order \in RuleOrders, fault \in StoreFaults :
              DOMAIN call.output
                  \cap DOMAIN get_search_responses(rules, order, searchResults, fault).output
                  \cap RuleIds = {}
    /\ call.op = "get_search_responses"
       => \A order \in RuleOrders, fault \in StoreFaults, up \in Upstream :
              DOMAIN call.output
                  \cap DOMAIN get_all_rule_summaries(rules, order, summaryIds, fault, up, jobs).output
                  \cap RuleIds = {}

\* C16 witness: the summarize listing answered with an entry while the
\* search listing of the same table has an entry too.
C16_Witness ==
    /\ call.op = "get_all_rule_summaries"
    /\ DOMAIN call.output # {}
    /\ \E order \in RuleOrders :
           DOMAIN get_search_responses(rules, order, searchResults, "none").output # {}

\* C17: failure isolation in the listings. When the lookup of one rule's
\* results fails, every other rule still has its entry, and the key "error"
\* is in a listing only when the rule-list fetch failed.
C17_FailureIsolation ==
    [][/\ GetSearchResponses
          => /\ "error" \in DOMAIN call'.output => call'.fault = "get_rules"
             /\ call'.fault \in RuleIds
                => \A r \in rules :
                       (r.action = "add to search" /\ r.id # call'.fault)
                       => /\ r.id \in DOMAIN call'.output
                          /\ call'.output[r.id] = search_entry(searchResults[r.id])
       /\ (GetAllRuleSummaries /\ call'.fault # "get_rules")
          => \A r \in rules :
                 (~ContainsSearch[r.action] /\ r.id # call'.fault /\ summaryIds[r.id] = <<>>)
                 => r.id \in DOMAIN call'.output]_vars

\* C18: in the summarize listing, a job id recorded for a non-search rule
\* whose pipeline has no summary yet is rendered as "Pending".
C18_UnresolvedRenderedPending ==
    [][(GetAllRuleSummaries /\ call'.fault = "none")
       => \A r \in rules :
              ~ContainsSearch[r.action]
              => \A i \in DOMAIN summaryIds[r.id] :
                     LET sid == summaryIds[r.id][i]
                     IN  SummaryField(jobs, sid) \in {NoneVal, ""}
                         => /\ r.id \in DOMAIN call'.output
                            /\ sid \in DOMAIN call'.output[r.id]
                            /\ call'.output[r.id][sid] = "Pending"]_vars

AddsOf(id) == {c \in Callers : pend[c].op = "add_rule" /\ pend[c].rule.id = id}
Answered(S) == {c \in S : pend[c].pc = "answered"}
Succeeded(S) == {c \in Answered(S) : ~Raised(pend[c].res)}
DeleteServed(id) ==
    \E c \in Succeeded(Callers) : pend[c].op = "delete_rule" /\ pend[c].rule.id = id
Conflict(r) == r.kind = "HTTPException" /\ r.val = "Rule ID already exists"

Registered(t) == \E sid \in DOMAIN polling_threads : polling_threads[sid] = t

\* C20: a poller whose stop signal is set, or that saw a terminal status
\* (completed or failed), and that has terminated, has no handle left in the
\* polling registry.
C20_PollingDoesNotLeak ==
    \A t \in DOMAIN threads :
        ((threads[t].stop \/ threads[t].seen \in Terminal) /\ Terminated(threads[t]))
        => ~Registered(t)

\* The outcome of the clip request of an operation.
ClipResult(c) == IF c.op = "get_camera_clip" THEN c.res ELSE c.stages[1].res
StatusOf(up) == IF up = "404" THEN 404 ELSE 500

\* C21: both clip requests map the failures of the footage source the same
\* way: a 404 response to not-found (404), any other error status and a
\* connection failure to upstream-unavailable (502); no transport exception
\* gets out.
C21_ClipFailuresMapped ==
    (call.op \in {"get_camera_clip"} \cup Submissions /\ call.reqs # <<>>)
    => /\ call.up = "404"
          => ClipResult(call).kind = "HTTPException" /\ ClipResult(call).code = 404
       /\ call.up \in {"500", "conn"}
          => ClipResult(call).kind = "HTTPException" /\ ClipResult(call).code = 502

\* C22: upload and submission answer a connection failure with
\* upstream-unavailable (502) and a non-2xx response of the analysis backend
\* with a different error, one that carries the status of the backend.
C22_RejectionDistinct ==
    (call.op \in {"video_upload", "create_summary"} /\ call.reqs # <<>>)
    => /\ call.up = "conn"
          => call.res.kind = "HTTPException" /\ call.res.code = 502
       /\ call.up \in {"404", "500"}
          => call.res.kind = "HTTPException" /\ call.res.code = StatusOf(call.up)

\* C23: an operation whose request met a service that never answers ends
\* with upstream-unavailable (502): every network call has a timeout.
C23_BoundedByTimeout ==
    (/\ call.op \in Submissions \cup {"summary", "video_upload", "create_summary",
                                      "get_summary_result"}
     /\ \E i \in DOMAIN call.reqs : call.reqs[i].up = "hang")
    => /\ call.pc = "done"
       /\ call.res.kind = "HTTPException"
       /\ call.res.code = 502

C25_NoRetries ==
    call.op \in Submissions \cup {"summary", "video_upload", "create_summary",
                                  "get_summary_result"}
    => \A i, j \in DOMAIN call.reqs :
           call.reqs[i].what = call.reqs[j].what => i = j

\* C25 witness: the clip request of a summarize failed and the operation
\* ended with that one request sent.
C25_Witness ==
    /\ call.op = "summarize"
    /\ call.pc = "done"
    /\ Len(call.reqs) = 1
    /\ call.reqs[1].up = "500"
    /\ Raised(call.res)

\* C26: every rule of the table has an entry in one of the two listings,
\* whatever its action text: when both listings are answered, no rule id is
\* missing from both.
C26_EveryRuleListed ==
    [][(GetSearchResponses /\ call'.fault = "none")
       => \A order \in RuleOrders :
              LET s == get_all_rule_summaries(rules, order, summaryIds, "none", "ok", jobs)
              IN  ~Raised(s.res)
                  => \A r \in rules : r.id \in DOMAIN call'.output \cup DOMAIN s.output]_vars

\* C27: the summarize listing has one key for every rule whose action does
\* not contain "search", rules without recorded jobs included, and under
\* each key one entry for every job id recorded for the rule.
C27_SummarizeListingKeys ==
    [][(GetAllRuleSummaries /\ call'.fault = "none")
       => /\ ~Raised(call'.res)
          /\ DOMAIN call'.output = {r.id : r \in {x \in rules : ~ContainsSearch[x.action]}}
          /\ \A id \in DOMAIN call'.output :
                 DOMAIN call'.output[id] = {summaryIds[id][i] : i \in DOMAIN summaryIds[id]}]_vars

\* C28: a poller that was replaced by a new poller of its summary id (its
\* stop signal is set) fetches no status and updates no status any more.
C28_ReplacedPollerIsSilent ==
    [][\A t \in DOMAIN threads :
           (threads[t].pc = "fetch" /\ threads'[t].pc # "fetch") => ~threads[t].stop]_vars

\* C29: when process_video sent a valid summarize request, the footage
\* source returned the clip in full and the analysis backend accepted upload
\* and submission, process_video reports "success" with the id of the
\* pipeline the backend created.
C29_UiReadsPipelineId ==
    (/\ ui.pc = "done" /\ ui.answered
     /\ call.op = "summarize" /\ call.up = "ok"
     /\ call.written = ClipChunks /\ call.res.kind # "ChunkedEncodingError"
     /\ call.upU = "ok" /\ call.upS = "ok")
    => /\ ui.res.val.status = "success"
       /\ JobIndex(jobs, ui.res.val.summary_id) # {}

\* C30: process_video sends no API request when a time is missing or
\* unparsable, when start_time >= end_time, or when the action is not
\* "Summarize"; it always ends with a result record that has a status.
C30_UiValidation ==
    /\ (ui.pc # "idle" /\ (ui.start = NoTime \/ ui.end = NoTime \/ ui.start >= ui.end))
       => /\ ui.pc = "done"
          /\ ui.reqs = 0
          /\ ui.res.val.status = "error"
    /\ (ui.pc # "idle" /\ ui.action # "Summarize") => ui.reqs = 0
    /\ ui.pc = "done"
       => /\ ~Raised(ui.res)
          /\ ui.res.val.status \in {"success", "error", "info"}

\* C30 witness: process_video was called with equal start and end times and
\* returned an error without a request.
C30_Witness ==
    /\ ui.pc = "done"
    /\ ui.action = "Summarize"
    /\ ui.start # NoTime
    /\ ui.start = ui.end
    /\ ui.reqs = 0
    /\ ui.res.val.status = "error"

====
